---------------------------- MODULE Spec2Model ----------------------------
(***************************************************************************)
(* Model of the publish-package transaction generator of                   *)
(* crates/transaction-emitter-lib/src/transaction_generator/               *)
(* publish_modules.rs: PublishPackageCreator, PublishPackageGenerator and  *)
(* generate_transactions, with the shared PackageHandler behind an RwLock. *)
(***************************************************************************)
EXTENDS Integers, Sequences, FiniteSets, TLC

(***************************************************************************)
(* Bounds of the model.                                                    *)
(***************************************************************************)
\* generators asked of the one creator
NumGenerators == 2
\* LocalAccounts owned by the driver
NumAccounts == 2
\* largest transactions_per_account passed in
MaxK == 3
\* transactions the driver asks for in one run, over all calls
MaxTxns == 4
\* StdRng states: the stream is a counter modulo RngMod
RngMod == 2
\* width of usize in the model (64 on the target; TLC's integers have 32 bits)
UsizeBits == 16
\* most whitespace characters put before and after a --config-type value
MaxPad == 1

Generators == 1 .. NumGenerators
Accounts == 1 .. NumAccounts
UsizeMod == 2 ^ UsizeBits

\* references to heap objects behind Arc<RwLock<..>>
HandlerRefs == 1 .. (NumGenerators + 1)
PoolRefs == 1 .. (NumGenerators + 1)
NoGen == [created |-> FALSE]
NoPackage == [variant |-> -1, version |-> 0, address |-> 0]
NoLock == 0

VARIABLES
    overflow_checks,   \* overflow checks of the build: "on", "off", or
                       \* "unset" until the first overflow shows which
    creator,           \* the PublishPackageCreator
    gen,               \* Generators -> PublishPackageGenerator (or NoGen)
    handlers,          \* HandlerRefs -> PackageHandler state (picks made)
    lock,              \* HandlerRefs -> writer holding the RwLock, or NoLock
    pools,             \* PoolRefs -> Vec<AccountAddress>
    sequence_number,   \* Accounts -> LocalAccount sequence number
    pc,                \* Generators -> position in generate_transactions
    accounts,          \* Generators -> argument `accounts` of the call
    k,                 \* Generators -> argument `transactions_per_account`
    idx,               \* Generators -> index of `account` in `accounts`
    package,           \* Generators -> local `package`
    useIter,           \* Generators -> next value of the range 1..k-1
    useEnd,            \* Generators -> end of the range 1..k-1
    requests,          \* Generators -> local `requests`
    seq0,              \* Generators -> sequence numbers when the call started
    rng0,              \* Generators -> stream state when the call started
    picks,             \* Generators -> packages picked in the call, in order
    asked,             \* transactions the calls started so far were to build
    global_config_file,  \* the file global_config.yaml, or NoFile
    cli,               \* the last `aptos config` command and what it returned
    supplied           \* config type of the last set-global-config that
                       \* succeeded with one, if any

vars == <<overflow_checks, creator, gen, handlers, lock, pools, sequence_number,
          pc, accounts, k, idx, package, useIter, useEnd, requests,
          seq0, rng0, picks, asked, global_config_file, cli, supplied>>

\* the state of crates/aptos/src/config: the file and the command line
config == <<global_config_file, cli, supplied>>

\* the state of the transaction generators
generator == <<overflow_checks, creator, gen, handlers, lock, pools,
               sequence_number, pc, accounts, k, idx, package, useIter, useEnd,
               requests, seq0, rng0, picks, asked>>

frame == <<accounts, k, idx, package, useIter, useEnd, requests,
           seq0, rng0, picks>>

(***************************************************************************)
(* Pure helpers.                                                           *)
(***************************************************************************)
\* StdRng: drawing returns the state and steps it
NextRng(r) == (r + 1) % RngMod

\* usize subtraction that stops at 0
WrappingSub_Saturating(a, b) == IF a < b THEN 0 ELSE a - b

\* usize subtraction: panics with overflow checks, wraps without
WrappingSub(a, b) == (a - b + UsizeMod) % UsizeMod

Range(s) == {s[i] : i \in 1 .. Len(s)}
Injective(s) == \A i, j \in 1 .. Len(s) : s[i] = s[j] => i = j

\* Vec<&mut LocalAccount>: exclusive borrows, so no account occurs twice
AccountLists(S) ==
    {s \in UNION {[1 .. n -> S] : n \in 0 .. Cardinality(S)} : Injective(s)}

(***************************************************************************)
(* The collaborators of publishing/publish_util.rs, through the interface  *)
(* the generator uses.                                                     *)
(***************************************************************************)
\* PackageHandler::pick_package: the handler after the pick
PickedHandler(h) == h + 1

\* PackageHandler::pick_package: the Package it returns
PickedPackage(h, rng, account) ==
    [variant |-> rng, version |-> PickedHandler(h), address |-> account]

\* Package::publish_transaction, signed with the account's sequence number
PublishTransaction(pkg, account, seq, factory) ==
    [kind |-> "publish", sender |-> account, sequence_number |-> seq,
     package |-> pkg, chain_id |-> factory.chain_id, gas_price |-> 0,
     arg |-> 0]

\* Package::use_transaction, signed with the account's sequence number
UseTransaction(pkg, rng, account, seq, factory, gas_price) ==
    [kind |-> "use", sender |-> account, sequence_number |-> seq,
     package |-> pkg, chain_id |-> factory.chain_id, gas_price |-> gas_price,
     arg |-> rng]

\* LocalAccount: signing a transaction steps the sequence number
Signed(seqs, account) == [seqs EXCEPT ![account] = @ + 1]

(***************************************************************************)
(* crates/aptos/src/config/mod.rs: ConfigType and GlobalConfig.  A string  *)
(* is a sequence of characters, Option<T> is <<>> or <<t>>, and a Result   *)
(* is a record whose error is "" when it is Ok.                            *)
(***************************************************************************)
None == <<>>
Some(x) == <<x>>
Ok(v) == [error |-> "", value |-> v]
Err(e, v) == [error |-> e, value |-> v]
IsOk(r) == r.error = ""

\* enum ConfigType
Global == "ConfigType::Global"
Workspace == "ConfigType::Workspace"
ConfigTypes == {Global, Workspace}

\* const GLOBAL and const WORKSPACE
GLOBAL == <<"g", "l", "o", "b", "a", "l">>
WORKSPACE == <<"w", "o", "r", "k", "s", "p", "a", "c", "e">>

\* impl Default for ConfigType
ConfigType_default == Workspace

\* impl Display for ConfigType
ConfigType_fmt(t) == IF t = Global THEN GLOBAL ELSE WORKSPACE

\* the letters the model's strings are made of, upper case over lower case
UpperCase == <<"A", "B", "C", "E", "G", "K", "L", "O", "P", "R", "S", "W">>
LowerCase == <<"a", "b", "c", "e", "g", "k", "l", "o", "p", "r", "s", "w">>
Whitespace == {" ", "\t"}

\* char::to_lowercase
LowerChar(c) ==
    IF \E i \in DOMAIN UpperCase : UpperCase[i] = c
        THEN LowerCase[CHOOSE i \in DOMAIN UpperCase : UpperCase[i] = c]
        ELSE c

\* char::to_uppercase
UpperChar(c) ==
    IF \E i \in DOMAIN LowerCase : LowerCase[i] = c
        THEN UpperCase[CHOOSE i \in DOMAIN LowerCase : LowerCase[i] = c]
        ELSE c

\* str::to_lowercase
to_lowercase(s) == [i \in DOMAIN s |-> LowerChar(s[i])]

\* a trim that takes whitespace off the front only
trim_StartOnly(s) ==
    LET kept == {i \in DOMAIN s : s[i] \notin Whitespace}
    IN IF kept = {} THEN <<>>
       ELSE SubSeq(s, CHOOSE i \in kept : \A j \in kept : i <= j, Len(s))

\* str::trim: leading and trailing whitespace removed
trim(s) ==
    LET kept == {i \in DOMAIN s : s[i] \notin Whitespace}
    IN IF kept = {} THEN <<>>
       ELSE SubSeq(s, CHOOSE i \in kept : \A j \in kept : i <= j,
                      CHOOSE i \in kept : \A j \in kept : i >= j)

\* impl FromStr for ConfigType
ConfigType_from_str(s) ==
    LET m == trim(to_lowercase(s))
    IN IF m = GLOBAL THEN Ok(Some(Global))
       ELSE IF m = WORKSPACE THEN Ok(Some(Workspace))
       ELSE Err("CommandArgumentError", None)

\* struct GlobalConfig and its Default
GlobalConfig(t) == [config_type |-> t]
GlobalConfig_default == GlobalConfig(ConfigType_default)
NoConfig == GlobalConfig("")

\* derive(Serialize) through to_yaml: the variant goes by its name
NoFile == <<>>
VariantName(t) == IF t = Global THEN "Global" ELSE "Workspace"
to_yaml(c) == <<"config_type", VariantName(c.config_type)>>

\* derive(Deserialize) through from_yaml
from_yaml(doc) ==
    IF Len(doc) = 2 /\ doc[1] = "config_type" /\ doc[2] = "Global"
        THEN Ok(GlobalConfig(Global))
    ELSE IF Len(doc) = 2 /\ doc[1] = "config_type" /\ doc[2] = "Workspace"
        THEN Ok(GlobalConfig(Workspace))
    ELSE Err("UnexpectedError", NoConfig)

\* no `aptos config` command has run: there is no global config file
NotRun == Err("NotRun", NoConfig)
NoCommand ==
    [command |-> "none", stage |-> "done", raw |-> None, word |-> <<>>,
     config_type |-> Ok(None), result |-> NotRun]
NoCommandYet ==
    /\ global_config_file = NoFile
    /\ cli = NoCommand
    /\ supplied = None

(***************************************************************************)
(* PublishPackageCreator and PublishPackageGenerator.                      *)
(***************************************************************************)
TxnFactory == [chain_id |-> 4]
GasPrices == {1}

\* PublishPackageCreator::new
PublishPackageCreator_new(rng, txn_factory, all_addresses, gas_price) ==
    [rng |-> rng, txn_factory |-> txn_factory, package_handler |-> 1,
     all_addresses |-> all_addresses, gas_price |-> gas_price]

\* PublishPackageGenerator::new
PublishPackageGenerator_new(rng, package_handler, txn_factory, all_addresses, gas_price) ==
    [created |-> TRUE, rng |-> rng, package_handler |-> package_handler,
     txn_factory |-> txn_factory, all_addresses |-> all_addresses,
     gas_price |-> gas_price]

\* a generator given a PackageHandler of its own instead of the shared one
BoxedGenerator_OwnHandler(c, g) ==
    PublishPackageGenerator_new(c.rng, g + 1, c.txn_factory, c.all_addresses,
                                c.gas_price)

\* the body of create_transaction_generator: every field cloned from &self
BoxedGenerator(c, g) ==
    PublishPackageGenerator_new(c.rng, c.package_handler, c.txn_factory,
                                c.all_addresses, c.gas_price)

\* one stream behind a shared handle: every generator sees the step
StepRng_Shared(gens, g) ==
    [h \in DOMAIN gens |->
        IF gens[h].created THEN [gens[h] EXCEPT !.rng = NextRng(@)]
                           ELSE gens[h]]

\* &mut self.rng: the stream of generator g alone is stepped
StepRng(gens, g) == [gens EXCEPT ![g].rng = NextRng(@)]

Init ==
    /\ overflow_checks = "unset"
    /\ \E seed \in 0 .. (RngMod - 1), gp \in GasPrices :
          creator = PublishPackageCreator_new(seed, TxnFactory, 1, gp)
    /\ gen = [g \in Generators |-> NoGen]
    /\ handlers = [r \in HandlerRefs |-> 0]
    /\ lock = [r \in HandlerRefs |-> NoLock]
    /\ pools = [r \in PoolRefs |-> [i \in Accounts |-> i]]
    /\ sequence_number = [a \in Accounts |-> 0]
    /\ pc = [g \in Generators |-> "none"]
    /\ accounts = [g \in Generators |-> <<>>]
    /\ k = [g \in Generators |-> 0]
    /\ idx = [g \in Generators |-> 0]
    /\ package = [g \in Generators |-> NoPackage]
    /\ useIter = [g \in Generators |-> 0]
    /\ useEnd = [g \in Generators |-> 0]
    /\ requests = [g \in Generators |-> <<>>]
    /\ seq0 = [g \in Generators |-> [a \in Accounts |-> 0]]
    /\ rng0 = [g \in Generators |-> 0]
    /\ picks = [g \in Generators |-> <<>>]
    /\ asked = 0
    /\ NoCommandYet

\* positions of a call that is running
Running == {"lock1", "pick1", "publish1", "range", "use",
            "lock2", "pick2", "publish2", "return"}

\* accounts mutably borrowed by a running call
Borrowed == UNION {Range(accounts[g]) : g \in {h \in Generators : pc[h] \in Running}}

\* the first account, whatever the iteration
Account_First(g) == accounts[g][1]

\* `account`, the loop variable
Account(g) == accounts[g][idx[g]]

shared == <<overflow_checks, creator, handlers, lock, pools, asked, config>>

(***************************************************************************)
(* create_transaction_generator(&self)                                     *)
(***************************************************************************)
CreateTransactionGenerator(g) ==
    /\ pc[g] = "none"
    /\ \A h \in Generators : h < g => pc[h] # "none"
    /\ gen' = [gen EXCEPT ![g] = BoxedGenerator(creator, g)]
    /\ pc' = [pc EXCEPT ![g] = "idle"]
    /\ UNCHANGED <<shared, sequence_number, frame>>

(***************************************************************************)
(* generate_transactions(&mut self, accounts, transactions_per_account)    *)
(***************************************************************************)
\* line 50: `for account in accounts` goes on with the account at i, if any
ForAccount(accts, i) == IF i <= Len(accts) THEN "lock1" ELSE "return"

\* transactions a call builds for each account when nothing cuts it short
Built(n) == IF n < 2 THEN 2 ELSE n

\* what a call takes of the driver's budget: a call on no account counts too
Cost(accts, n) == IF accts = <<>> THEN 1 ELSE Len(accts) * Built(n)

\* line 49: the call starts with an empty `requests`
GenerateTransactions(g, accts, transactions_per_account) ==
    /\ pc[g] = "idle"
    /\ asked + Cost(accts, transactions_per_account) <= MaxTxns
    /\ asked' = asked + Cost(accts, transactions_per_account)
    /\ accounts' = [accounts EXCEPT ![g] = accts]
    /\ k' = [k EXCEPT ![g] = transactions_per_account]
    /\ idx' = [idx EXCEPT ![g] = 1]
    /\ requests' = [requests EXCEPT ![g] = <<>>]
    /\ seq0' = [seq0 EXCEPT ![g] =
          [a \in Accounts |-> IF a \in Range(accts) THEN sequence_number[a]
                                                     ELSE 0]]
    /\ rng0' = [rng0 EXCEPT ![g] = gen[g].rng]
    /\ picks' = [picks EXCEPT ![g] = <<>>]
    /\ package' = [package EXCEPT ![g] = NoPackage]
    /\ pc' = [pc EXCEPT ![g] = ForAccount(accts, 1)]
    /\ UNCHANGED <<config, overflow_checks, creator, handlers, lock, pools, gen,
                   sequence_number, useIter, useEnd>>

\* line 70: the loop is over; `requests` is what the call returns
Returning(g) == pc[g] = "return"

\* line 70: the call returns and its frame is gone
Return(g) ==
    /\ Returning(g)
    /\ accounts' = [accounts EXCEPT ![g] = <<>>]
    /\ k' = [k EXCEPT ![g] = 0]
    /\ idx' = [idx EXCEPT ![g] = 0]
    /\ package' = [package EXCEPT ![g] = NoPackage]
    /\ requests' = [requests EXCEPT ![g] = <<>>]
    /\ seq0' = [seq0 EXCEPT ![g] = [a \in Accounts |-> 0]]
    /\ rng0' = [rng0 EXCEPT ![g] = 0]
    /\ picks' = [picks EXCEPT ![g] = <<>>]
    /\ pc' = [pc EXCEPT ![g] = "idle"]
    /\ UNCHANGED <<shared, gen, sequence_number, useIter, useEnd>>

\* a lock taken without waiting for the guard that is out
Write_NoWait(g, from, to) ==
    /\ pc[g] = from
    /\ lock' = [lock EXCEPT ![gen[g].package_handler] = g]
    /\ pc' = [pc EXCEPT ![g] = to]
    /\ UNCHANGED <<config, overflow_checks, creator, handlers, pools, asked, gen,
                   sequence_number, frame>>

\* RwLock::write(): blocks until no other guard is out
Write(g, from, to) ==
    /\ pc[g] = from
    /\ lock[gen[g].package_handler] = NoLock
    /\ lock' = [lock EXCEPT ![gen[g].package_handler] = g]
    /\ pc' = [pc EXCEPT ![g] = to]
    /\ UNCHANGED <<config, overflow_checks, creator, handlers, pools, asked, gen,
                   sequence_number, frame>>

\* the write guard bound to a name that lives on after the statement
DropGuard_Kept(locks, g) == locks

\* the write guard, a temporary, is dropped at the end of the let statement
DropGuard(locks, g) == [locks EXCEPT ![gen[g].package_handler] = NoLock]

\* pick_package(&mut self.rng, account) on the locked handler
PickPackage(g, from, to) ==
    /\ pc[g] = from
    /\ lock[gen[g].package_handler] = g
    /\ LET r == gen[g].package_handler
           pkg == PickedPackage(handlers[r], gen[g].rng, Account(g))
       IN /\ handlers' = [handlers EXCEPT ![r] = PickedHandler(@)]
          /\ package' = [package EXCEPT ![g] = pkg]
          /\ picks' = [picks EXCEPT ![g] = Append(@, pkg)]
    /\ gen' = StepRng(gen, g)
    /\ lock' = DropGuard(lock, g)
    /\ pc' = [pc EXCEPT ![g] = to]
    /\ UNCHANGED <<config, overflow_checks, creator, pools, asked, sequence_number,
                   accounts, k, idx, useIter, useEnd, requests, seq0, rng0>>

\* a publish that also records the account in the address pool
Publish_RecordsAddress(g, from, to, step) ==
    /\ pc[g] = from
    /\ pc' = [pc EXCEPT ![g] = to]
    /\ requests' = [requests EXCEPT ![g] =
          Append(@, PublishTransaction(package[g], Account(g),
                                       sequence_number[Account(g)],
                                       gen[g].txn_factory))]
    /\ sequence_number' = Signed(sequence_number, Account(g))
    /\ idx' = [idx EXCEPT ![g] = @ + step]
    /\ pools' = [pools EXCEPT ![gen[g].all_addresses] = Append(@, Account(g))]
    /\ UNCHANGED <<config, overflow_checks, creator, handlers, lock, asked, gen,
                   accounts, k, package, useIter, useEnd, seq0, rng0, picks>>

\* package.publish_transaction(account, &self.txn_factory); requests.push(txn)
Publish(g, from, to, step) ==
    /\ pc[g] = from
    /\ pc' = [pc EXCEPT ![g] = to]
    /\ requests' = [requests EXCEPT ![g] =
          Append(@, PublishTransaction(package[g], Account(g),
                                       sequence_number[Account(g)],
                                       gen[g].txn_factory))]
    /\ sequence_number' = Signed(sequence_number, Account(g))
    /\ idx' = [idx EXCEPT ![g] = @ + step]
    /\ UNCHANGED <<shared, gen, accounts, k, package, useIter, useEnd,
                   seq0, rng0, picks>>

\* line 52, first half
WriteLock1(g) == Write(g, "lock1", "pick1")
\* line 52, second half
PickPackage1(g) == PickPackage(g, "pick1", "publish1")
\* lines 53-54
PublishTransaction1(g) == Publish(g, "publish1", "range", 0)

\* the range taken to transactions_per_account itself
RangeEnd_NoSub(n) == n

\* line 56: the end of the range 1..transactions_per_account - 1
RangeEnd(n) == WrappingSub(n, 1)

\* line 56: the range is built once, before the first iteration
UseRange(g) ==
    /\ pc[g] = "range"
    /\ k[g] < 1 => overflow_checks \in {"unset", "off"}
    /\ overflow_checks' = IF k[g] < 1 THEN "off" ELSE overflow_checks
    /\ useIter' = [useIter EXCEPT ![g] = 1]
    /\ useEnd' = [useEnd EXCEPT ![g] = RangeEnd(k[g])]
    /\ pc' = [pc EXCEPT ![g] = "use"]
    /\ UNCHANGED <<config, creator, handlers, lock, pools, asked, gen,
                   sequence_number, accounts, k, idx, package, requests,
                   seq0, rng0, picks>>

\* line 56, overflow checks on: 0 - 1 panics and the call unwinds
UseRangePanic(g) ==
    /\ pc[g] = "range"
    /\ k[g] < 1 /\ overflow_checks \in {"unset", "on"}
    /\ overflow_checks' = "on"
    /\ requests' = [requests EXCEPT ![g] = <<>>]
    /\ package' = [package EXCEPT ![g] = NoPackage]
    /\ idx' = [idx EXCEPT ![g] = 0]
    /\ accounts' = [accounts EXCEPT ![g] = <<>>]
    /\ k' = [k EXCEPT ![g] = 0]
    /\ seq0' = [seq0 EXCEPT ![g] = [a \in Accounts |-> 0]]
    /\ rng0' = [rng0 EXCEPT ![g] = 0]
    /\ picks' = [picks EXCEPT ![g] = <<>>]
    /\ pc' = [pc EXCEPT ![g] = "panicked"]
    /\ UNCHANGED <<config, creator, handlers, lock, pools, asked, gen,
                   sequence_number, useIter, useEnd>>

\* a handle left over from the pick before the last
UsedPackage_Stale(g) ==
    IF Len(picks[g]) > 1 THEN picks[g][Len(picks[g]) - 1] ELSE NoPackage

\* the package the use transactions are built from: the local of line 52
UsedPackage(g) == package[g]

\* lines 57-64: one iteration of the use loop
UseLoop(g) ==
    /\ pc[g] = "use"
    /\ useIter[g] < useEnd[g]
    /\ Len(requests[g]) < MaxTxns
    /\ requests' = [requests EXCEPT ![g] =
          Append(@, UseTransaction(UsedPackage(g), gen[g].rng, Account(g),
                                   sequence_number[Account(g)],
                                   gen[g].txn_factory, gen[g].gas_price))]
    /\ sequence_number' = Signed(sequence_number, Account(g))
    /\ gen' = StepRng(gen, g)
    /\ useIter' = [useIter EXCEPT ![g] = @ + 1]
    /\ UNCHANGED <<shared, pc, accounts, k, idx, package, useEnd,
                   seq0, rng0, picks>>

\* the loop left for the second publish without a second pick
UseLoopExit_NoSecondPick(g) ==
    /\ pc[g] = "use"
    /\ useIter[g] >= useEnd[g]
    /\ useIter' = [useIter EXCEPT ![g] = 0]
    /\ useEnd' = [useEnd EXCEPT ![g] = 0]
    /\ pc' = [pc EXCEPT ![g] = "publish2"]
    /\ UNCHANGED <<shared, gen, sequence_number, accounts, k, idx, package,
                   requests, seq0, rng0, picks>>

\* line 65: the range is exhausted
UseLoopExit(g) ==
    /\ pc[g] = "use"
    /\ useIter[g] >= useEnd[g]
    /\ useIter' = [useIter EXCEPT ![g] = 0]
    /\ useEnd' = [useEnd EXCEPT ![g] = 0]
    /\ pc' = [pc EXCEPT ![g] = "lock2"]
    /\ UNCHANGED <<shared, gen, sequence_number, accounts, k, idx, package,
                   requests, seq0, rng0, picks>>

\* line 66, first half
WriteLock2(g) == Write(g, "lock2", "pick2")
\* line 66, second half
PickPackage2(g) == PickPackage(g, "pick2", "publish2")
\* the second publish left out
PublishTransaction2_Skipped(g) ==
    /\ pc[g] = "publish2"
    /\ pc' = [pc EXCEPT ![g] = ForAccount(accounts[g], idx[g] + 1)]
    /\ idx' = [idx EXCEPT ![g] = @ + 1]
    /\ UNCHANGED <<shared, gen, sequence_number, accounts, k, package,
                   useIter, useEnd, requests, seq0, rng0, picks>>

\* lines 67-68, and on to the next account
PublishTransaction2(g) ==
    Publish(g, "publish2", ForAccount(accounts[g], idx[g] + 1), 1)

Next ==
    \/ \E g \in Generators : CreateTransactionGenerator(g)
    \/ \E g \in Generators, accts \in AccountLists(Accounts \ Borrowed),
          n \in 0 .. MaxK : GenerateTransactions(g, accts, n)
    \/ \E g \in Generators : Return(g)
    \/ \E g \in Generators : WriteLock1(g)
    \/ \E g \in Generators : PickPackage1(g)
    \/ \E g \in Generators : PublishTransaction1(g)
    \/ \E g \in Generators : UseRange(g)
    \/ \E g \in Generators : UseRangePanic(g)
    \/ \E g \in Generators : UseLoop(g)
    \/ \E g \in Generators : UseLoopExit(g)
    \/ \E g \in Generators : WriteLock2(g)
    \/ \E g \in Generators : PickPackage2(g)
    \/ \E g \in Generators : PublishTransaction2(g)

Spec == Init /\ [][Next]_vars

(***************************************************************************)
(* Scheduling.  Each generator runs on a thread that keeps being           *)
(* scheduled, and the RwLock is fair: a writer that finds the lock free    *)
(* again and again gets it in the end.                                     *)
(***************************************************************************)
\* the steps of a running call that wait for nothing
Proceed(g) ==
    \/ PickPackage1(g) \/ PublishTransaction1(g)
    \/ UseRange(g) \/ UseRangePanic(g) \/ UseLoop(g) \/ UseLoopExit(g)
    \/ PickPackage2(g) \/ PublishTransaction2(g)
    \/ Return(g)

\* lines 52 and 66: the two places a call waits for the lock
Acquire(g) == WriteLock1(g) \/ WriteLock2(g)

Fairness ==
    \A g \in Generators : WF_vars(Proceed(g)) /\ SF_vars(Acquire(g))

\* the driver keeps to the contract and asks for two or more transactions
\* for each account
FairNext ==
    \/ \E g \in Generators : CreateTransactionGenerator(g)
    \/ \E g \in Generators, accts \in AccountLists(Accounts \ Borrowed),
          n \in 2 .. MaxK : GenerateTransactions(g, accts, n)
    \/ \E g \in Generators : Return(g)
    \/ \E g \in Generators : WriteLock1(g)
    \/ \E g \in Generators : PickPackage1(g)
    \/ \E g \in Generators : PublishTransaction1(g)
    \/ \E g \in Generators : UseRange(g)
    \/ \E g \in Generators : UseLoop(g)
    \/ \E g \in Generators : UseLoopExit(g)
    \/ \E g \in Generators : WriteLock2(g)
    \/ \E g \in Generators : PickPackage2(g)
    \/ \E g \in Generators : PublishTransaction2(g)

FairSpec == Init /\ [][FairNext]_vars /\ Fairness

(***************************************************************************)
(* A pick that fails.  pick_package is not part of these sources; the      *)
(* specification names catalog exhaustion as a failure of the affected     *)
(* call that leaves the catalog usable by the other generators.            *)
(***************************************************************************)
\* the handler after a pick that failed: its bookkeeping is as before
FailedPickHandler(h) == h

\* the guard of a failed pick never given back
UnwindGuard_Leaked(locks, g) == locks

\* the guard of a failed pick is dropped while the call unwinds and the
\* lock can be taken again
UnwindGuard(locks, g) == [locks EXCEPT ![gen[g].package_handler] = NoLock]

\* lines 52 and 66: pick_package panics under the write guard
PickPackagePanic(g, from) ==
    /\ pc[g] = from
    /\ lock[gen[g].package_handler] = g
    /\ handlers' = [handlers EXCEPT ![gen[g].package_handler] =
                       FailedPickHandler(@)]
    /\ lock' = UnwindGuard(lock, g)
    /\ requests' = [requests EXCEPT ![g] = <<>>]
    /\ package' = [package EXCEPT ![g] = NoPackage]
    /\ idx' = [idx EXCEPT ![g] = 0]
    /\ accounts' = [accounts EXCEPT ![g] = <<>>]
    /\ k' = [k EXCEPT ![g] = 0]
    /\ seq0' = [seq0 EXCEPT ![g] = [a \in Accounts |-> 0]]
    /\ rng0' = [rng0 EXCEPT ![g] = 0]
    /\ picks' = [picks EXCEPT ![g] = <<>>]
    /\ pc' = [pc EXCEPT ![g] = "pick_panicked"]
    /\ UNCHANGED <<config, overflow_checks, creator, pools, asked, gen,
                   sequence_number, useIter, useEnd>>

\* line 52
PickPackagePanic1(g) == PickPackagePanic(g, "pick1")
\* line 66
PickPackagePanic2(g) == PickPackagePanic(g, "pick2")

FailNext ==
    \/ Next
    \/ \E g \in Generators : PickPackagePanic1(g)
    \/ \E g \in Generators : PickPackagePanic2(g)

FailSpec == Init /\ [][FailNext]_vars


(***************************************************************************)
(* `aptos config set-global-config` and `show-global-config`.  Each        *)
(* command is a process of its own: it parses its arguments, runs          *)
(* execute() and exits.  Its environment has a home directory or not.      *)
(***************************************************************************)
\* --config-type values that are not a config type, as typed in lower case
WrongWords ==
    {<<>>,
     SubSeq(GLOBAL, 1, 4),
     GLOBAL \o <<"s">>,
     SubSeq(WORKSPACE, 1, 4) \o <<" ">> \o SubSeq(WORKSPACE, 5, 9),
     <<"l", "o", "c", "a", "l">>}
Words == {GLOBAL, WORKSPACE} \cup WrongWords
Casings == {"lower", "UPPER", "Title", "mIxEd"}

\* the word w as the user may case it
Cased(w, c) ==
    [i \in DOMAIN w |->
        IF \/ c = "UPPER"
           \/ c = "Title" /\ i = 1
           \/ c = "mIxEd" /\ i % 2 = 0
            THEN UpperChar(w[i]) ELSE w[i]]

\* the word w as the user may type it, whitespace around it
Typed(w, c, l, r, ws) ==
    [i \in 1 .. l |-> ws] \o Cased(w, c) \o [i \in 1 .. r |-> ws]

\* global_folder(): an error when there is no home directory
global_folder(home) == IF home THEN "" ELSE "UnexpectedError"

\* a load that does not look at the file
GlobalConfig_load_IgnoresFile(file, home) ==
    IF global_folder(home) # "" THEN Err(global_folder(home), NoConfig)
    ELSE Ok(GlobalConfig_default)

\* GlobalConfig::load
GlobalConfig_load(file, home) ==
    IF global_folder(home) # "" THEN Err(global_folder(home), NoConfig)
    ELSE IF file # NoFile THEN from_yaml(file)
    ELSE Ok(GlobalConfig_default)

\* GlobalConfig::save: the result and the file afterwards
GlobalConfig_save(c, file, home) ==
    IF global_folder(home) # ""
        THEN [result |-> Err(global_folder(home), NoConfig), file |-> file]
        ELSE [result |-> Ok(NoConfig), file |-> to_yaml(c)]

\* a flag that is not given puts the default back
WithConfigType_Reset(c, config_type) ==
    IF config_type = None THEN [c EXCEPT !.config_type = ConfigType_default]
    ELSE [c EXCEPT !.config_type = config_type[1]]

\* lines 95-97: `if let Some(config_type) = self.config_type`
WithConfigType(c, config_type) ==
    IF config_type = None THEN c
    ELSE [c EXCEPT !.config_type = config_type[1]]

\* SetGlobalConfig::execute: the result and the file afterwards
SetGlobalConfig_execute(config_type, file, home) ==
    LET loaded == GlobalConfig_load(file, home)
    IN IF ~IsOk(loaded) THEN [result |-> loaded, file |-> file]
       ELSE GlobalConfig_save(WithConfigType(loaded.value, config_type),
                              file, home)

\* `aptos config set-global-config [--config-type raw]` is started: clap
\* fills the field config_type, parsing a value with ConfigType::from_str
ParseSetGlobalConfig(raw, word) ==
    /\ cli.stage = "done"
    /\ cli' = [command |-> "set", stage |-> "parsed", raw |-> raw,
               word |-> word,
               config_type |-> IF raw = None THEN Ok(None)
                               ELSE ConfigType_from_str(raw[1]),
               result |-> NotRun]
    /\ UNCHANGED <<global_config_file, supplied, generator>>

\* the value did not parse: the process exits with the error
ArgumentError ==
    /\ cli.command = "set" /\ cli.stage = "parsed"
    /\ ~IsOk(cli.config_type)
    /\ cli' = [cli EXCEPT !.stage = "done", !.raw = None, !.word = <<>>,
                          !.result = Err(cli.config_type.error, NoConfig)]
    /\ UNCHANGED <<global_config_file, supplied, generator>>

\* SetGlobalConfig::execute runs, and the process exits
SetGlobalConfig(home) ==
    /\ cli.command = "set" /\ cli.stage = "parsed"
    /\ IsOk(cli.config_type)
    /\ LET ran == SetGlobalConfig_execute(cli.config_type.value,
                                          global_config_file, home)
       IN /\ cli' = [cli EXCEPT !.stage = "done", !.raw = None,
                                !.word = <<>>, !.result = ran.result]
          /\ global_config_file' = ran.file
          /\ supplied' = IF IsOk(ran.result) /\ cli.config_type.value # None
                             THEN cli.config_type.value ELSE supplied
    /\ UNCHANGED generator

\* `aptos config show-global-config`: ShowGlobalConfig::execute
ShowGlobalConfig(home) ==
    /\ cli.stage = "done"
    /\ cli' = [command |-> "show", stage |-> "done", raw |-> None,
               word |-> <<>>, config_type |-> Ok(None),
               result |-> GlobalConfig_load(global_config_file, home)]
    /\ UNCHANGED <<global_config_file, supplied, generator>>

ConfigNext ==
    \/ \E home \in BOOLEAN : ShowGlobalConfig(home)
    \/ ParseSetGlobalConfig(None, <<>>)
    \/ \E w \in Words, c \in Casings, l \in 0 .. MaxPad, r \in 0 .. MaxPad,
          ws \in Whitespace :
          ParseSetGlobalConfig(Some(Typed(w, c, l, r, ws)), w)
    \/ ArgumentError
    \/ \E home \in BOOLEAN : SetGlobalConfig(home)

ConfigSpec == Init /\ [][ConfigNext]_vars

(***************************************************************************)
(* Properties of generate_transactions and create_transaction_generator.   *)
(***************************************************************************)
InPick == {"pick1", "pick2"}
Building == {"publish1", "range", "use", "publish2"}

\* position in `requests` of the j-th transaction of the i-th account
Pos(g, i, j) == (i - 1) * k[g] + j

\* transactions of `requests` signed by account a
SignedBy(g, a) == {p \in 1 .. Len(requests[g]) : requests[g][p].sender = a}

\* publish transactions of `requests` before position p
PublishedBefore(g, p) ==
    {q \in 1 .. (p - 1) : requests[g][q].kind = "publish"}

\* C1: for k >= 2 a call returns exactly len(accounts) * k transactions.
C1_OutputLength ==
    \A g \in Generators :
        Returning(g) /\ k[g] >= 2
            => Len(requests[g]) = Len(accounts[g]) * k[g]

C1_Witness ==
    \E g \in Generators :
        /\ Returning(g) /\ k[g] >= 2 /\ Len(accounts[g]) >= 2
        /\ Len(requests[g]) = Len(accounts[g]) * k[g]

\* C2: for k >= 2 the returned sequence is one block per account, in the
\* order of `accounts`; each block is a publish, k - 2 uses, a publish, all
\* signed by that account.
C2_BlockLayout ==
    \A g \in Generators :
        Returning(g) /\ k[g] >= 2
            => /\ Len(requests[g]) = Len(accounts[g]) * k[g]
               /\ \A i \in 1 .. Len(accounts[g]), j \in 1 .. k[g] :
                     LET t == requests[g][Pos(g, i, j)]
                     IN /\ t.sender = accounts[g][i]
                        /\ t.kind = IF j = 1 \/ j = k[g] THEN "publish"
                                                          ELSE "use"

C2_Witness ==
    \E g \in Generators :
        /\ Returning(g) /\ k[g] = 2 /\ Len(accounts[g]) = 2
        /\ accounts[g][1] > accounts[g][2]
        /\ \A p \in 1 .. 4 : requests[g][p].kind = "publish"
        /\ requests[g][2].sender = accounts[g][1]
        /\ requests[g][3].sender = accounts[g][2]

\* C3 (as claimed): a call with k < 2 on a non-empty account list fails
\* with an error: it builds no transaction, returns none and leaves the
\* sequence numbers of its accounts as they were.
C3_SmallKRejected ==
    \A g \in Generators :
        pc[g] \in Running /\ k[g] < 2 /\ accounts[g] # <<>>
            => /\ ~Returning(g)
               /\ requests[g] = <<>>
               /\ \A a \in Range(accounts[g]) :
                     sequence_number[a] = seq0[g][a]

\* C4: during a call every transaction built for an account steps its
\* sequence number by one, and for k >= 2 the call returns with each of its
\* accounts exactly k higher; the j-th transaction of an account is signed
\* with the number the account had at the start plus j - 1.
C4_SequenceNumbers ==
    \A g \in Generators :
        /\ pc[g] \in Running
              => \A a \in Range(accounts[g]) :
                    sequence_number[a] = seq0[g][a] + Cardinality(SignedBy(g, a))
        /\ Returning(g) /\ k[g] >= 2
              => \A i \in 1 .. Len(accounts[g]) :
                    /\ sequence_number[accounts[g][i]]
                          = seq0[g][accounts[g][i]] + k[g]
                    /\ \A j \in 1 .. k[g] :
                          requests[g][Pos(g, i, j)].sequence_number
                              = seq0[g][accounts[g][i]] + j - 1

C4_Witness ==
    \E g \in Generators :
        /\ Returning(g) /\ k[g] = 3 /\ Len(accounts[g]) = 1
        /\ sequence_number[accounts[g][1]] = seq0[g][accounts[g][1]] + 3

\* C5 (as claimed): two generators of one creator start from different
\* randomness stream states.
C5_DistinctStreams ==
    asked = 0
        => \A g, h \in Generators :
              g # h /\ gen[g].created /\ gen[h].created
                  => gen[g].rng # gen[h].rng

\* C6: at most one generator is inside pick_package at a time, and a
\* PackageHandler changes only in a step of a generator that is inside
\* pick_package on it and holds its write lock.
C6_MutexInPick ==
    \A g, h \in Generators :
        /\ pc[g] \in InPick /\ pc[h] \in InPick
        /\ gen[g].package_handler = gen[h].package_handler
        => g = h

C6_MutatedUnderLock ==
    \A r \in HandlerRefs :
        handlers'[r] # handlers[r]
            => \E g \in Generators :
                  /\ pc[g] \in InPick
                  /\ gen[g].package_handler = r
                  /\ lock[r] = g
                  /\ pc'[g] \notin InPick

\* C6: both parts, in every interleaving
C6_PickSerialized == [](C6_MutexInPick) /\ [][C6_MutatedUnderLock]_vars

C6_Witness ==
    \E g, h \in Generators :
        /\ g # h
        /\ pc[g] \in InPick
        /\ pc[h] \in {"lock1", "lock2"}
        /\ gen[g].package_handler = gen[h].package_handler

\* C7: a generator holds the write lock only while inside pick_package;
\* while it builds a publish or a use transaction it holds no lock.
C7_LockOnlyInPick ==
    \A g \in Generators, r \in HandlerRefs :
        /\ lock[r] = g => pc[g] \in InPick /\ gen[g].package_handler = r
        /\ pc[g] \in Building => lock[r] # g

\* one generator builds a transaction while another is inside pick_package
C7_Witness ==
    \E g, h \in Generators :
        /\ g # h
        /\ pc[g] \in {"publish1", "publish2"}
        /\ pc[h] \in InPick
        /\ lock[gen[h].package_handler] = h
        /\ gen[g].package_handler = gen[h].package_handler

\* C8: every use transaction carries the package of the first pick of its
\* account's block, the publish transaction of that package comes before it
\* in `requests`, signed by the same account, and it never carries the
\* package of the block's second pick.
C8_UseAfterPublish ==
    \A g \in Generators :
        \A p \in 1 .. Len(requests[g]) :
            requests[g][p].kind = "use"
                => LET n == Cardinality(PublishedBefore(g, p))
                   IN /\ n % 2 = 1
                      /\ n <= Len(picks[g])
                      /\ requests[g][p].package = picks[g][n]
                      /\ \E q \in PublishedBefore(g, p) :
                            /\ requests[g][q].package = requests[g][p].package
                            /\ requests[g][q].sender = requests[g][p].sender
                            /\ requests[g][q].package = picks[g][n]
                      /\ Len(picks[g]) > n
                            => requests[g][p].package # picks[g][n + 1]

C8_Witness ==
    \E g \in Generators :
        /\ Returning(g) /\ k[g] >= 3 /\ Len(picks[g]) = 2
        /\ requests[g][2].kind = "use"
        /\ requests[g][2].package = picks[g][1]
        /\ requests[g][1].package = picks[g][1]
        /\ requests[g][k[g]].package = picks[g][2]

\* C9: a step that advances the stream of one generator leaves the stream
\* of the creator and of every other generator as it was.
C9_StreamStep ==
    \A g \in Generators :
        gen[g].created /\ gen'[g].rng # gen[g].rng
            => /\ creator'.rng = creator.rng
               /\ \A h \in Generators \ {g} : gen'[h] = gen[h]

\* C9: every step of every interleaving is such a step
C9_OwnStream == [][C9_StreamStep]_vars

\* two generators run calls at once and their streams have come apart
C9_Witness ==
    \E g, h \in Generators :
        /\ g # h /\ gen[g].created /\ gen[h].created
        /\ pc[g] \in Running /\ pc[h] \in Running
        /\ gen[g].rng # gen[h].rng
        /\ gen[h].rng = creator.rng

\* C10: create_transaction_generator leaves the creator, the handlers, the
\* locks, the address pools and the accounts as they were, and every
\* generator refers to the creator's PackageHandler and address pool and
\* carries its transaction factory and gas price.
C10_SharesCreatorState ==
    \A g \in Generators :
        gen[g].created
            => /\ gen[g].package_handler = creator.package_handler
               /\ gen[g].all_addresses = creator.all_addresses
               /\ gen[g].txn_factory = creator.txn_factory
               /\ gen[g].gas_price = creator.gas_price

C10_CreateStep ==
    (\E g \in Generators : ~gen[g].created /\ gen'[g].created)
        => /\ creator' = creator
           /\ handlers' = handlers
           /\ lock' = lock
           /\ pools' = pools
           /\ sequence_number' = sequence_number
           /\ \A h \in Generators : gen[h].created => gen'[h] = gen[h]

\* C10: the references agree in every state and every creating step
\* changes nothing else
C10_CreateIsPure == [](C10_SharesCreatorState) /\ [][C10_CreateStep]_vars

\* a generator at its start state beside one that has picked from the
\* handler both refer to
C10_Witness ==
    \E g, h \in Generators :
        /\ g # h /\ gen[g].created /\ gen[h].created
        /\ pc[g] = "idle" /\ gen[g].rng = creator.rng
        /\ pc[h] \in Building
        /\ handlers[gen[g].package_handler] > 0

\* C11: a pick_package that panics under the write guard ends only the call
\* it was made in: the step changes nothing of any other generator nor of
\* the handler, it gives the lock back, and in every state a lock that is
\* held is held by a generator that is inside pick_package, so the others
\* still take it and finish their calls.
C11_HolderAlive ==
    \A r \in HandlerRefs :
        lock[r] # NoLock
            => pc[lock[r]] \in InPick /\ gen[lock[r]].package_handler = r

C11_PanicStep ==
    \A g \in Generators :
        pc'[g] = "pick_panicked" /\ pc[g] # "pick_panicked"
            => /\ handlers' = handlers
               /\ lock'[gen[g].package_handler] = NoLock
               /\ sequence_number' = sequence_number
               /\ \A h \in Generators \ {g} :
                     /\ pc'[h] = pc[h] /\ gen'[h] = gen[h]
                     /\ requests'[h] = requests[h] /\ picks'[h] = picks[h]

Expected(g, V) ==
    [p \in 1 .. Len(accounts[g]) * k[g] |->
        LET i == ((p - 1) \div k[g]) + 1
            j == ((p - 1) % k[g]) + 1
            a == accounts[g][i]
            r == rng0[g] + (i - 1) * k[g]
            first == PickedPackage(V[2 * i - 1] - 1, r % RngMod, a)
            last == PickedPackage(V[2 * i] - 1, (r + k[g] - 1) % RngMod, a)
        IN IF j = 1
              THEN PublishTransaction(first, a, seq0[g][a],
                                      gen[g].txn_factory)
           ELSE IF j = k[g]
              THEN PublishTransaction(last, a, seq0[g][a] + j - 1,
                                      gen[g].txn_factory)
           ELSE UseTransaction(first, (r + j - 1) % RngMod, a,
                               seq0[g][a] + j - 1, gen[g].txn_factory,
                               gen[g].gas_price)]

C13_FrameStep ==
    /\ pools' = pools
    /\ creator' = creator
    /\ \A g \in Generators :
          gen[g].created
              => /\ gen'[g] = [gen[g] EXCEPT !.rng = gen'[g].rng]
                 /\ gen'[g].rng # gen[g].rng
                       => pc[g] \in Running /\ pc[g] \in InPick \cup {"use"}
    /\ \A a \in Accounts :
          sequence_number'[a] # sequence_number[a]
              => \E g \in Generators :
                    /\ pc[g] \in Building
                    /\ a \in Range(accounts[g]) /\ a = Account(g)
                    /\ Len(requests'[g]) = Len(requests[g]) + 1
    /\ \A r \in HandlerRefs :
          handlers'[r] # handlers[r]
              => \E g \in Generators :
                    pc[g] \in InPick /\ gen[g].package_handler = r

C13_Frame == [][C13_FrameStep]_vars

\* a call on one account returns: that account's number has moved, the
\* handler has counted its picks, and the other account is where it was
C13_Witness ==
    \E g \in Generators, b \in Accounts :
        /\ Returning(g) /\ k[g] >= 2 /\ Len(accounts[g]) = 1
        /\ b # accounts[g][1]
        /\ sequence_number[accounts[g][1]] = k[g]
        /\ sequence_number[b] = 0
        /\ handlers[gen[g].package_handler] = 2

\* C17 (as claimed): for every transactions_per_account <= 1 the end of the
\* range 1..transactions_per_account - 1 is not computed: the subtraction
\* panics or, without overflow checks, wraps.
C17_UnderflowUpToOne ==
    \A g \in Generators :
        pc[g] = "use" /\ k[g] <= 1 => useEnd[g] = UsizeMod - 1

\* C17 (amended): the use loop runs over 1..transactions_per_account - 1;
\* only for 0 does the subtraction underflow (the call panics there, or the
\* end wraps to the largest usize); for 1 the end is 0 and the range is
\* empty, as it is for 2, and for k >= 2 it has k - 2 values.
C17_RangeOfUseLoop ==
    \A g \in Generators :
        /\ pc[g] = "use"
              => /\ useEnd[g] = IF k[g] = 0 THEN UsizeMod - 1 ELSE k[g] - 1
                 /\ useIter[g] >= 1
                 /\ k[g] = 0 => overflow_checks = "off"
                 /\ k[g] \in {1, 2}
                       => useIter[g] = 1 /\ ~(useIter[g] < useEnd[g])
                 /\ k[g] >= 2 => useIter[g] <= useEnd[g]
        /\ pc[g] = "panicked" => overflow_checks = "on"
        /\ pc[g] = "lock2" /\ k[g] >= 1
              => Len(requests[g]) = (idx[g] - 1) * Built(k[g]) + Built(k[g]) - 1

\* a call with k = 1 is at the head of the use loop with the empty range 1..0
C17_Witness ==
    \E g \in Generators :
        pc[g] = "use" /\ k[g] = 1 /\ useIter[g] = 1 /\ useEnd[g] = 0

\* picks a call at its idx-th account has made when it is at position p
PicksAt(g, p) ==
    2 * (idx[g] - 1)
        + (IF p \in {"lock1", "pick1"} THEN 0
           ELSE IF p = "publish2" THEN 2 ELSE 1)

\* C19: a call takes the handler's write lock and picks exactly twice for
\* each account, for every k >= 1: once before the account's first publish
\* and once after its last use transaction; a call on no account never
\* takes the lock, picks nothing and returns the empty sequence.
C19_TwoPicksPerAccount ==
    \A g \in Generators :
        /\ Returning(g) /\ k[g] >= 1 => Len(picks[g]) = 2 * Len(accounts[g])
        /\ pc[g] \in Running \ {"return"} /\ k[g] >= 1
              => /\ Len(picks[g]) = PicksAt(g, pc[g])
                 /\ idx[g] \in 1 .. Len(accounts[g])
        /\ pc[g] \in {"pick1", "publish1"} /\ k[g] >= 1
              => Len(requests[g]) = (idx[g] - 1) * Built(k[g])
        /\ pc[g] \in {"lock2", "pick2", "publish2"} /\ k[g] >= 1
              => /\ Len(requests[g]) = idx[g] * Built(k[g]) - 1
                 /\ k[g] >= 3 => requests[g][Len(requests[g])].kind = "use"
        /\ \A r \in HandlerRefs : lock[r] = g => pc[g] \in InPick
        /\ pc[g] \in Running /\ accounts[g] = <<>>
              => /\ Returning(g)
                 /\ picks[g] = <<>> /\ requests[g] = <<>>
                 /\ \A r \in HandlerRefs : lock[r] # g

\* a call with k = 1 on two accounts returns after four picks
C19_Witness ==
    \E g \in Generators :
        /\ Returning(g) /\ k[g] = 1 /\ Len(accounts[g]) = 2
        /\ Len(picks[g]) = 4 /\ Len(requests[g]) = 4

\* C18: under fair scheduling every call with k >= 2 returns, however many
\* generators contend for the lock; a generator that waits for the lock
\* does not hold it, and a lock that is waited for is free or held by a
\* generator that is inside pick_package and gives it back in its next
\* step.
C18_NoSelfWait ==
    \A g \in Generators :
        pc[g] \in {"lock1", "lock2"}
            => LET r == gen[g].package_handler
               IN /\ lock[r] # g
                  /\ lock[r] # NoLock
                        => /\ pc[lock[r]] \in InPick
                           /\ gen[lock[r]].package_handler = r
                           /\ ENABLED (PickPackage1(lock[r])
                                         \/ PickPackage2(lock[r]))

C18_Returns ==
    \A g \in Generators :
        (pc[g] \in Running /\ k[g] >= 2) ~> Returning(g)

C18_Terminates == [](C18_NoSelfWait) /\ C18_Returns

\* two generators wait for the lock of the handler they share, each in a
\* call with k >= 2
C18_Witness ==
    \E g, h \in Generators :
        /\ g # h /\ k[g] >= 2 /\ k[h] >= 2
        /\ pc[g] = "lock2" /\ pc[h] = "lock1"
        /\ gen[g].package_handler = gen[h].package_handler

(***************************************************************************)
(* Properties of the global config commands.                               *)
(***************************************************************************)
\* the config type GlobalConfig::load reads, given a home directory
EffectiveType(file) == GlobalConfig_load(file, TRUE).value.config_type

\* C14: set-global-config without --config-type leaves the config type that
\* GlobalConfig::load reads as it was before the command, Workspace when
\* there was no global config file.
C14_SetStep ==
    /\ cli.command = "set" /\ cli.stage = "parsed"
    /\ cli.config_type = Ok(None)
    => /\ EffectiveType(global_config_file')
             = EffectiveType(global_config_file)
       /\ global_config_file = NoFile
             => EffectiveType(global_config_file') = Workspace
       /\ supplied' = supplied

C14_UnsuppliedKeepsType == [][C14_SetStep]_vars

\* set-global-config without --config-type has succeeded on a file that
\* holds Global
C14_Witness ==
    /\ cli.command = "set" /\ cli.stage = "done"
    /\ cli.config_type = Ok(None) /\ IsOk(cli.result)
    /\ global_config_file = to_yaml(GlobalConfig(Global))
    /\ supplied = Some(Global)

\* C15: show-global-config returns the config type of the last
\* set-global-config that succeeded with one, Workspace if there was none
\* (and so whenever there is no global config file yet), and it leaves the
\* file as it is, never creating it.
C15_ShowsLastSupplied ==
    /\ cli.command = "show" /\ IsOk(cli.result)
          => cli.result.value.config_type
                = IF supplied = None THEN Workspace ELSE supplied[1]
    /\ global_config_file = NoFile => supplied = None
    /\ EffectiveType(global_config_file)
          = IF supplied = None THEN Workspace ELSE supplied[1]

C15_ShowStep ==
    cli'.command = "show"
        => global_config_file' = global_config_file /\ supplied' = supplied

C15_ShowIsReadOnly == [](C15_ShowsLastSupplied) /\ [][C15_ShowStep]_vars

\* show-global-config has returned Global after a set-global-config
C15_Witness ==
    /\ cli.command = "show" /\ IsOk(cli.result)
    /\ cli.result.value.config_type = Global
    /\ supplied = Some(Global)

\* C16: ConfigType::from_str takes what Display writes back to the config
\* type it was written from, takes "global" and "workspace" in any letter
\* case and with whitespace around them, and rejects every other string
\* with a CommandArgumentError.
C16_ParseInvertsDisplay ==
    /\ cli.stage = "parsed" /\ cli.raw # None
          => /\ cli.config_type
                   = IF cli.word = GLOBAL THEN Ok(Some(Global))
                     ELSE IF cli.word = WORKSPACE THEN Ok(Some(Workspace))
                     ELSE Err("CommandArgumentError", None)
             /\ \A t \in ConfigTypes :
                   cli.raw = Some(ConfigType_fmt(t))
                       => cli.config_type = Ok(Some(t))
    /\ cli.command = "set" /\ cli.stage = "done" /\ ~IsOk(cli.config_type)
          => cli.result.error = "CommandArgumentError"

\* " WORKSPACE " has been parsed to Workspace
C16_Witness ==
    /\ cli.command = "set" /\ cli.stage = "parsed" /\ cli.word = WORKSPACE
    /\ cli.raw = Some(Typed(WORKSPACE, "UPPER", 1, 1, " "))
    /\ cli.config_type = Ok(Some(Workspace))

=============================================================================
